---------------------------- MODULE Spec2Model ----------------------------
(***************************************************************************)
(* One-way directory synchronisation (mfs::DirectorySyncer, src/src/sync.cpp)*)
(* over a small POSIX-like filesystem.  The filesystem is one tree of       *)
(* absolute paths (sequences of names); the source and destination roots    *)
(* are two paths of it, so that the roots may be disjoint or nested.        *)
(***************************************************************************)
EXTENDS Integers, Sequences, FiniteSets, TLC

VARIABLES
    fs,                 \* the filesystem: path -> node
    source,             \* synchronize's first argument
    destination,        \* synchronize's second argument
    remove_extraneous,  \* SyncOptions::remove_extraneous (options_)
    faults,             \* paths on which lstat / status / relative / mutating calls fail
    pc,                 \* position inside synchronize
    stats,              \* the SyncStats accumulator
    it,                 \* the recursive_directory_iterator of the running stage
    candidates,         \* prune stage: the RemovalCandidate vector
    ci,                 \* prune stage: index of the next candidate to remove
    run,                \* 1 for the first call of synchronize, 2 for the second
    err,                \* message of the exception that ended the run ("" if none)
    ev,                 \* what the last step did (entry, destination path, outcome)
    fs0,                \* the filesystem when the current call started
    fsPrune             \* the filesystem when the prune stage started

vars == <<fs, source, destination, remove_extraneous, faults, pc, stats, it,
          candidates, ci, run, err, ev, fs0, fsPrune>>

(***************************************************************************)
(* Bounds of the model.                                                    *)
(***************************************************************************)
\* Entries below the two roots together in the general family of trees.
TotalEntries == 3
\* Depth of the initial trees below their root.
RelDepth == 2
\* Longest path, in components, the operating system accepts (PATH_MAX).
PathMax == 4

Names == {"a", "b"}

(***************************************************************************)
(* Paths.                                                                  *)
(***************************************************************************)
Root == << >>

\* The two root directories of the initial filesystems.
S == <<"s">>

D == <<"d">>

IsPrefix(p, q) == Len(p) <= Len(q) /\ SubSeq(q, 1, Len(p)) = p

IsAncestor(p, q) == Len(p) < Len(q) /\ IsPrefix(p, q)

Parent(p) == SubSeq(p, 1, Len(p) - 1)

\* fs::relative(p, base) for p below base: the components of p after base.
Relative(p, base) == SubSeq(p, Len(base) + 1, Len(p))

\* fs::relative(p, base) throws (it canonicalises both paths, which can fail).
RelativeThrows(p) == p \in faults.relative

(***************************************************************************)
(* Nodes.  kind is the type lstat reports ("dir", "file", "link", "other"); *)
(* a symlink's tgt tells what following it finds ("none": dangling,         *)
(* "file", "dir", or "s": the entry at path S); sec/nsec are the signed st_mtim of the entry; data is    *)
(* the content of a regular file (for a symlink: the content of the file    *)
(* it leads to).                                                           *)
(***************************************************************************)
DirNode == [kind |-> "dir", size |-> 0, sec |-> 0, nsec |-> 0, data |-> "", tgt |-> "-"]

OtherNode == [kind |-> "other", size |-> 0, sec |-> 0, nsec |-> 0, data |-> "", tgt |-> "-"]

File(size, sec, nsec, data) ==
    [kind |-> "file", size |-> size, sec |-> sec, nsec |-> nsec, data |-> data, tgt |-> "-"]

Link(tgt) == [kind |-> "link", size |-> 0, sec |-> 0, nsec |-> 0, data |-> "", tgt |-> tgt]

\* The clock: the modification time a file written during the run receives.
Now == [sec |-> 1, nsec |-> 0]

(***************************************************************************)
(* std::filesystem and POSIX calls used by sync.cpp.                       *)
(***************************************************************************)
Children(f, d) == {p \in DOMAIN f : Len(p) = Len(d) + 1 /\ IsPrefix(d, p)}

\* status(p) fails with an error other than "not found" (the throwing
\* overloads of exists / is_directory / is_regular_file then throw).
StatusThrows(p) == Len(p) > PathMax \/ p \in faults.status

\* status(p).type(): the type of what p names once symlinks are followed.
StatusType(f, p) ==
    IF p \notin DOMAIN f THEN "none"
    ELSE IF f[p].kind # "link" THEN f[p].kind
    ELSE IF f[p].tgt # "s" THEN f[p].tgt
    ELSE IF S \notin DOMAIN f THEN "none"
    ELSE IF f[S].kind = "link" THEN f[S].tgt
    ELSE f[S].kind

\* fs::exists: follows symlinks.
Exists(f, p) == StatusType(f, p) # "none"

\* fs::is_directory: follows symlinks.
IsDirectory(f, p) == StatusType(f, p) = "dir"

\* fs::is_regular_file: follows symlinks.
IsRegularFile(f, p) == StatusType(f, p) = "file"

Prefixes(p) == {SubSeq(p, 1, n) : n \in 0..Len(p)}

\* fs::create_directories(p): creates p and its missing ancestors; fails
\* when a component exists and is no directory, or the path is too long.
CreateDirectories(f, p) ==
    IF \/ Len(p) > PathMax
       \/ p \in faults.op
       \/ \E q \in Prefixes(p) : q \in DOMAIN f /\ ~IsDirectory(f, q)
    THEN [ok |-> FALSE, fs |-> f]
    ELSE [ok |-> TRUE,
          fs |-> [q \in DOMAIN f \cup Prefixes(p) |->
                     IF q \in DOMAIN f THEN f[q] ELSE DirNode]]

\* The entries remove_all(p) deletes: p and everything below it, never
\* crossing a symlink.
Subtree(f, p) ==
    {q \in DOMAIN f :
        /\ IsPrefix(p, q)
        /\ \A n \in Len(p)..(Len(q) - 1) : f[SubSeq(q, 1, n)].kind # "link"}

Without(f, p) == [q \in {r \in DOMAIN f : ~IsPrefix(p, r)} |-> f[q]]

\* fs::remove_all(p): the number of entries removed (0 when p is absent).
RemoveAll(f, p) ==
    IF p \in faults.op
    THEN [ok |-> FALSE, fs |-> f, count |-> 0, why |-> "fault"]
    ELSE IF p \notin DOMAIN f
    THEN [ok |-> TRUE, fs |-> f, count |-> 0, why |-> ""]
    ELSE [ok |-> TRUE, fs |-> Without(f, p), count |-> Cardinality(Subtree(f, p)),
          why |-> ""]

\* fs::remove(p): false when p is absent; fails on a directory that is not
\* empty.
Remove(f, p) ==
    IF p \in faults.op
    THEN [ok |-> FALSE, fs |-> f, count |-> 0, why |-> "fault"]
    ELSE IF p \notin DOMAIN f
    THEN [ok |-> TRUE, fs |-> f, count |-> 0, why |-> ""]
    ELSE IF f[p].kind = "dir" /\ Children(f, p) # {}
    THEN [ok |-> FALSE, fs |-> f, count |-> 0, why |-> "not_empty"]
    ELSE [ok |-> TRUE, fs |-> Without(f, p), count |-> 1, why |-> ""]

\* fs::copy_file(from, to, overwrite_existing): writes from's content to
\* the file `to` names, following a symlink at `to`; the written file gets
\* the time of the copy.
CopyFile(f, from, to) ==
    IF \/ Len(to) > PathMax
       \/ to \in faults.op
       \/ ~IsRegularFile(f, from)
       \/ ~IsDirectory(f, Parent(to))
       \/ (Exists(f, to) /\ ~IsRegularFile(f, to))
    THEN [ok |-> FALSE, fs |-> f]
    ELSE IF to \in DOMAIN f /\ f[to].kind = "link"
    THEN [ok |-> TRUE,
          fs |-> [f EXCEPT ![to] = [@ EXCEPT !.tgt = "file", !.data = f[from].data]]]
    ELSE [ok |-> TRUE,
          fs |-> [q \in DOMAIN f \cup {to} |->
                     IF q = to
                     THEN File(f[from].size, Now.sec, Now.nsec, f[from].data)
                     ELSE f[q]]]

\* The path p names once a symlink at p is followed.
Resolve(f, p) ==
    IF p \in DOMAIN f /\ f[p].kind = "link" /\ f[p].tgt = "s" THEN S ELSE p

\* fs::equivalent: both paths resolve to the same filesystem object.
Equivalent(f, p, q) == Resolve(f, p) = Resolve(f, q)


(***************************************************************************)
(* collect_metadata: one lstat, its fields cast to std::uint64_t.          *)
(***************************************************************************)
\* The number of values of the unsigned type the fields are cast to.  The
\* model's timestamps are a few seconds around 0, so 2^30 orders them as
\* 2^64 does: a negative tv_sec wraps to a value above every other one.
UIntSpan == 2^30

\* static_cast<std::uint64_t>(x)
ToU64(x) == x % UIntSpan

NoMeta ==
    [file |-> Root, depth |-> 0, mode |-> "none", size |-> 0, mtime |-> 0, mtime_nsec |-> 0]

\* The query made with stat instead of lstat: a symlink reports its target.
CollectMetadataFollow(f, p, depth) ==
    IF p \notin DOMAIN f \/ p \in faults.lstat \/ Len(p) > PathMax
    THEN [ok |-> FALSE, meta |-> NoMeta]
    ELSE [ok |-> TRUE,
          meta |-> [file |-> p, depth |-> depth, mode |-> StatusType(f, p),
                    size |-> ToU64(f[p].size), mtime |-> ToU64(f[p].sec),
                    mtime_nsec |-> ToU64(f[p].nsec)]]

CollectMetadata(f, p, depth) ==
    IF p \notin DOMAIN f \/ p \in faults.lstat \/ Len(p) > PathMax
    THEN [ok |-> FALSE, meta |-> NoMeta]
    ELSE [ok |-> TRUE,
          meta |-> [file |-> p, depth |-> depth, mode |-> f[p].kind,
                    size |-> ToU64(f[p].size), mtime |-> ToU64(f[p].sec),
                    mtime_nsec |-> ToU64(f[p].nsec)]]

(***************************************************************************)
(* The freshness test of copy_from_source.                                 *)
(***************************************************************************)
TimeNewer(src_meta, dest_meta) ==
    \/ src_meta.mtime > dest_meta.mtime
    \/ (src_meta.mtime = dest_meta.mtime /\ src_meta.mtime_nsec > dest_meta.mtime_nsec)

\* The test without the nanosecond tie-break.
ShouldCopySeconds(src_meta, dest_meta) ==
    src_meta.size # dest_meta.size \/ src_meta.mtime > dest_meta.mtime

ShouldCopy(src_meta, dest_meta) ==
    src_meta.size # dest_meta.size \/ TimeNewer(src_meta, dest_meta)

(***************************************************************************)
(* recursive_directory_iterator.  A frame is one open directory stream:    *)
(* snap holds the names present when it was opened, done the names already *)
(* returned.  Whether a stream returns a name added after it was opened is *)
(* unspecified, and so is the order of the names: both are choices here.   *)
(* Symlinks are not followed (no follow_directory_symlink option).         *)
(***************************************************************************)
NoEntry == <<"<end>">>

OpenDir(f, d) == [dir |-> d, snap |-> Children(f, d), done |-> {}]

RECURSIVE Positions(_, _)
\* The places the iterator may stand at next: an entry, or the end.
Positions(f, stk) ==
    IF stk = << >>
    THEN {[stk |-> << >>, entry |-> NoEntry]}
    ELSE LET n     == Len(stk)
             top   == stk[n]
             avail == Children(f, top.dir) \ top.done
         IN  {[stk |-> [stk EXCEPT ![n].done = @ \cup {e}], entry |-> e] : e \in avail}
             \cup (IF avail \cap top.snap = {}
                   THEN Positions(f, SubSeq(stk, 1, n - 1))
                   ELSE {})

\* ++it after `entry` was handled: descend into it when it is a directory
\* and recursion was not disabled.
Increment(f, stk, entry, descend) ==
    IF descend /\ entry \in DOMAIN f /\ f[entry].kind = "dir"
    THEN Append(stk, OpenDir(f, entry))
    ELSE stk

(***************************************************************************)
(* SyncStats.                                                              *)
(***************************************************************************)
EmptyStats ==
    [entries_scanned |-> 0, files_copied |-> 0, files_skipped |-> 0,
     files_deleted |-> 0, directories_created |-> 0, bytes_copied |-> 0,
     synced_entries |-> << >>]

NoEvent == [act |-> "none", entry |-> Root, dest |-> Root]

Event(act, entry, dest) == [act |-> act, entry |-> entry, dest |-> dest]

(***************************************************************************)
(* copy_from_source: the body of the loop for one entry of the source      *)
(* walk.  The result holds the filesystem and the statistics afterwards,   *)
(* whether the walk may descend into the entry, and whether an exception   *)
(* left the loop (a throwing status query outside every try block).        *)
(***************************************************************************)
Outcome(f, st, descend, abort, act, entry, dest) ==
    [fs |-> f, stats |-> st, descend |-> descend, abort |-> abort,
     ev |-> Event(act, entry, dest)]

\* The block that counts the file before it is copied.
DoCopyCountsFirst(f, st, entry, dest_path, src_meta) ==
    LET cd      == CreateDirectories(f, Parent(dest_path))
        cf      == CopyFile(cd.fs, entry, dest_path)
        counted == [st EXCEPT !.files_copied = @ + 1]
    IN  IF ~cd.ok
        THEN Outcome(f, st, TRUE, FALSE, "parent_failed", entry, dest_path)
        ELSE IF ~cf.ok
        THEN Outcome(cd.fs, counted, TRUE, FALSE, "copy_failed", entry, dest_path)
        ELSE Outcome(cf.fs,
                     [counted EXCEPT !.bytes_copied = @ + src_meta.size,
                                     !.synced_entries = Append(@, src_meta)],
                     TRUE, FALSE, "copied", entry, dest_path)

\* The `if (should_copy)` block: parent directories, copy_file, statistics.
DoCopy(f, st, entry, dest_path, src_meta) ==
    LET cd == CreateDirectories(f, Parent(dest_path))
        cf == CopyFile(cd.fs, entry, dest_path)
    IN  IF ~cd.ok
        THEN Outcome(f, st, TRUE, FALSE, "parent_failed", entry, dest_path)
        ELSE IF ~cf.ok
        THEN Outcome(cd.fs, st, TRUE, FALSE, "copy_failed", entry, dest_path)
        ELSE Outcome(cf.fs,
                     [st EXCEPT !.files_copied = @ + 1,
                                !.bytes_copied = @ + src_meta.size,
                                !.synced_entries = Append(@, src_meta)],
                     TRUE, FALSE, "copied", entry, dest_path)

\* The directory branch that records a directory already present as well.
CopyDirectoryRecordAll(f, st, entry, dest_path, src_meta) ==
    IF StatusThrows(dest_path)
    THEN Outcome(f, st, FALSE, TRUE, "abort", entry, dest_path)
    ELSE IF Exists(f, dest_path)
    THEN Outcome(f, [st EXCEPT !.synced_entries = Append(@, src_meta)],
                 TRUE, FALSE, "present", entry, dest_path)
    ELSE LET cd == CreateDirectories(f, dest_path)
         IN  IF cd.ok
             THEN Outcome(cd.fs,
                          [st EXCEPT !.directories_created = @ + 1,
                                     !.synced_entries = Append(@, src_meta)],
                          TRUE, FALSE, "created", entry, dest_path)
             ELSE Outcome(f, st, FALSE, FALSE, "mkdir_failed", entry, dest_path)

\* The directory branch (is_directory).
CopyDirectory(f, st, entry, dest_path, src_meta) ==
    IF StatusThrows(dest_path)
    THEN Outcome(f, st, FALSE, TRUE, "abort", entry, dest_path)
    ELSE IF Exists(f, dest_path)
    THEN Outcome(f, st, TRUE, FALSE, "present", entry, dest_path)
    ELSE LET cd == CreateDirectories(f, dest_path)
         IN  IF cd.ok
             THEN Outcome(cd.fs,
                          [st EXCEPT !.directories_created = @ + 1,
                                     !.synced_entries = Append(@, src_meta)],
                          TRUE, FALSE, "created", entry, dest_path)
             ELSE Outcome(f, st, FALSE, FALSE, "mkdir_failed", entry, dest_path)

\* The regular-file branch whose copy block falls through to the skip
\* counter: a copied file is counted as skipped as well.
CopyRegularAlsoSkips(f, st, entry, dest_path, src_meta) ==
    LET Fall(o) == IF o.ev.act = "copied"
                   THEN [o EXCEPT !.stats.files_skipped = @ + 1]
                   ELSE o
    IN  IF StatusThrows(dest_path)
        THEN Outcome(f, st, FALSE, TRUE, "abort", entry, dest_path)
        ELSE IF ~Exists(f, dest_path)
        THEN Fall(DoCopy(f, st, entry, dest_path, src_meta))
        ELSE IF ~IsRegularFile(f, dest_path)
        THEN LET r == RemoveAll(f, dest_path)
             IN  IF r.ok
                 THEN Fall(DoCopy(r.fs, st, entry, dest_path, src_meta))
                 ELSE Outcome(f, st, TRUE, FALSE, "replace_failed", entry, dest_path)
        ELSE LET dm == CollectMetadata(f, dest_path, src_meta.depth)
             IN  IF ~dm.ok
                 THEN Fall(DoCopy(f, st, entry, dest_path, src_meta))
                 ELSE IF dm.meta.mode = "link"
                 THEN LET r == Remove(f, dest_path)
                      IN  IF r.ok
                          THEN Fall(DoCopy(r.fs, st, entry, dest_path, src_meta))
                          ELSE Outcome(f, st, TRUE, FALSE, "replace_failed", entry,
                                       dest_path)
                 ELSE IF ShouldCopy(src_meta, dm.meta)
                 THEN Fall(DoCopy(f, st, entry, dest_path, src_meta))
                 ELSE Outcome(f, [st EXCEPT !.files_skipped = @ + 1],
                              TRUE, FALSE, "skipped", entry, dest_path)

\* The regular-file branch: the should_copy decision, then the copy.
CopyRegular(f, st, entry, dest_path, src_meta) ==
    IF StatusThrows(dest_path)
    THEN Outcome(f, st, FALSE, TRUE, "abort", entry, dest_path)
    ELSE IF ~Exists(f, dest_path)
    THEN DoCopy(f, st, entry, dest_path, src_meta)
    ELSE IF ~IsRegularFile(f, dest_path)
    THEN LET r == RemoveAll(f, dest_path)
         IN  IF r.ok
             THEN DoCopy(r.fs, st, entry, dest_path, src_meta)
             ELSE Outcome(f, st, TRUE, FALSE, "replace_failed", entry, dest_path)
    ELSE LET dm == CollectMetadata(f, dest_path, src_meta.depth)
         IN  IF ~dm.ok
             THEN DoCopy(f, st, entry, dest_path, src_meta)
             ELSE IF dm.meta.mode = "link"
             THEN LET r == Remove(f, dest_path)
                  IN  IF r.ok
                      THEN DoCopy(r.fs, st, entry, dest_path, src_meta)
                      ELSE Outcome(f, st, TRUE, FALSE, "replace_failed", entry, dest_path)
             ELSE IF ShouldCopy(src_meta, dm.meta)
             THEN DoCopy(f, st, entry, dest_path, src_meta)
             ELSE Outcome(f, [st EXCEPT !.files_skipped = @ + 1],
                          TRUE, FALSE, "skipped", entry, dest_path)

\* dest_path = destination / fs::relative(entry.path(), source)
DestPath(entry) == destination \o Relative(entry, source)

CopyEntry(f, st, entry, depth) ==
    LET scanned   == [st EXCEPT !.entries_scanned = @ + 1]
        cm        == CollectMetadata(f, entry, depth)
        src_meta  == cm.meta
        dest_path == DestPath(entry)
    IN  IF ~cm.ok
        THEN Outcome(f, scanned, FALSE, FALSE, "lstat_failed", entry, Root)
        ELSE IF src_meta.mode = "link"
        THEN Outcome(f, [scanned EXCEPT !.files_skipped = @ + 1],
                     FALSE, FALSE, "symlink", entry, Root)
        ELSE IF RelativeThrows(entry)
        THEN Outcome(f, scanned, FALSE, FALSE, "relative_failed", entry, Root)
        ELSE IF src_meta.mode = "dir"
        THEN CopyDirectory(f, scanned, entry, dest_path, src_meta)
        ELSE IF src_meta.mode # "file"
        THEN Outcome(f, [scanned EXCEPT !.files_skipped = @ + 1],
                     TRUE, FALSE, "nonregular", entry, dest_path)
        ELSE CopyRegular(f, scanned, entry, dest_path, src_meta)

(***************************************************************************)
(* prune_destination: the body of the discovery loop for one entry of the  *)
(* destination walk, the sort, and the removal of one candidate.           *)
(***************************************************************************)
RemovalCandidate(path, is_directory, depth) ==
    [path |-> path, is_directory |-> is_directory, depth |-> depth]

\* std::distance(path.begin(), path.end()): the number of components.
PathDepth(p) == Len(p)

Discovered(cands, descend, abort, act, entry, match) ==
    [candidates |-> cands, descend |-> descend, abort |-> abort,
     ev |-> Event(act, entry, match)]

\* The match looked up by the entry's file name alone.
SourceMatchByName(entry) == source \o <<entry[Len(entry)]>>

\* source_match = source / fs::relative(entry.path(), destination)
SourceMatch(entry) == source \o Relative(entry, destination)

\* The discovery loop that does not descend into a directory it keeps.
PruneEntryShallow(f, cands, entry, depth) ==
    LET cm           == CollectMetadata(f, entry, depth)
        dest_meta    == cm.meta
        source_match == SourceMatch(entry)
    IN  IF ~cm.ok
        THEN Discovered(cands, FALSE, FALSE, "lstat_failed", entry, Root)
        ELSE IF dest_meta.mode = "link"
        THEN Discovered(cands, TRUE, FALSE, "symlink", entry, Root)
        ELSE IF RelativeThrows(entry)
        THEN Discovered(cands, FALSE, FALSE, "relative_failed", entry, Root)
        ELSE IF StatusThrows(source_match)
        THEN Discovered(cands, FALSE, TRUE, "abort", entry, source_match)
        ELSE IF Exists(f, source_match)
        THEN Discovered(cands, FALSE, FALSE, "kept", entry, source_match)
        ELSE Discovered(Append(cands,
                               RemovalCandidate(entry, dest_meta.mode = "dir",
                                                PathDepth(entry))),
                        TRUE, FALSE, "candidate", entry, source_match)

PruneEntry(f, cands, entry, depth) ==
    LET cm           == CollectMetadata(f, entry, depth)
        dest_meta    == cm.meta
        source_match == SourceMatch(entry)
    IN  IF ~cm.ok
        THEN Discovered(cands, FALSE, FALSE, "lstat_failed", entry, Root)
        ELSE IF dest_meta.mode = "link"
        THEN Discovered(cands, TRUE, FALSE, "symlink", entry, Root)
        ELSE IF RelativeThrows(entry)
        THEN Discovered(cands, FALSE, FALSE, "relative_failed", entry, Root)
        ELSE IF StatusThrows(source_match)
        THEN Discovered(cands, FALSE, TRUE, "abort", entry, source_match)
        ELSE IF Exists(f, source_match)
        THEN Discovered(cands, TRUE, FALSE, "kept", entry, source_match)
        ELSE Discovered(Append(cands,
                               RemovalCandidate(entry, dest_meta.mode = "dir",
                                                PathDepth(entry))),
                        TRUE, FALSE, "candidate", entry, source_match)

\* The comparator of an ascending sort.
DepthBeforeAscending(lhs, rhs) == lhs.depth < rhs.depth

\* The comparator handed to std::sort: lhs goes before rhs.
DepthBefore(lhs, rhs) == lhs.depth > rhs.depth

IndexOrders(n) == {g \in [1..n -> 1..n] : \A i, j \in 1..n : i # j => g[i] # g[j]}

\* std::sort is not stable: any order the comparator allows may result.
SortedCandidates(cands) ==
    {[i \in 1..Len(cands) |-> cands[g[i]]] : g \in
        {h \in IndexOrders(Len(cands)) :
            \A i, j \in 1..Len(cands) :
                i < j => ~DepthBefore(cands[h[j]], cands[h[i]])}}

\* The removal loop that counts one per candidate removed.
RemoveCandidateCountsOne(f, st, cand) ==
    LET r == IF cand.is_directory THEN RemoveAll(f, cand.path) ELSE Remove(f, cand.path)
    IN  IF r.ok
        THEN [fs |-> r.fs,
              stats |-> [st EXCEPT !.files_deleted = @ + (IF r.count > 0 THEN 1 ELSE 0)],
              ev |-> Event(IF r.count > 0 THEN "removed" ELSE "gone", cand.path, Root)]
        ELSE [fs |-> f, stats |-> st,
              ev |-> Event(IF r.why = "not_empty"
                           THEN "remove_not_empty" ELSE "remove_failed",
                           cand.path, Root)]

\* The body of the removal loop for one candidate.
RemoveCandidate(f, st, cand) ==
    LET r == IF cand.is_directory THEN RemoveAll(f, cand.path) ELSE Remove(f, cand.path)
    IN  IF r.ok
        THEN [fs |-> r.fs, stats |-> [st EXCEPT !.files_deleted = @ + r.count],
              ev |-> Event(IF r.count > 0 THEN "removed" ELSE "gone", cand.path, Root)]
        ELSE [fs |-> f, stats |-> st,
              ev |-> Event(IF r.why = "not_empty"
                           THEN "remove_not_empty" ELSE "remove_failed",
                           cand.path, Root)]

(***************************************************************************)
(* The initial filesystems and arguments.                                  *)
(***************************************************************************)
FileS == File(1, 0, 0, "S")

FileSNew == File(1, 2, 0, "S")

FileD == File(1, 0, 0, "D")

\* Every regular file of the pairwise family: sizes, seconds (before the
\* epoch, at it, after the clock) and nanoseconds.
Files(data) == {File(sz, sec, ns, data) : sz \in {1, 2}, sec \in {-1, 0, 2}, ns \in {0, 1}}

Links == {Link("none"), Link("file"), Link("dir")}

RelPaths == UNION {[1..n -> Names] : n \in 1..RelDepth}

Shapes(n) ==
    {P \in SUBSET RelPaths :
        Cardinality(P) = n /\ \A p \in P : Len(p) > 1 => Parent(p) \in P}

\* The trees of n entries whose inner nodes are directories and whose
\* leaves are drawn from Leaves.
TreesOf(Leaves, n) ==
    UNION {{t \in [P -> Leaves \cup {DirNode}] :
                \A p \in P : (\E q \in P : IsAncestor(p, q)) => t[p] = DirNode}
           : P \in Shapes(n)}

Mount(root, t) == [p \in {root \o r : r \in DOMAIN t} |-> t[Relative(p, root)]]

One(p, node) == [q \in {p} |-> node]

Opt(p, nodes) == {One(p, n) : n \in nodes} \cup {<< >>}

NoFaults == [lstat |-> {}, status |-> {}, relative |-> {}, op |-> {}]

Config(f, src, dst, re, flt) ==
    [fs |-> f, source |-> src, destination |-> dst, remove_extraneous |-> re,
     faults |-> flt]

\* Two separate roots with trees of at most TotalEntries entries together.
GeneralConfigs ==
    UNION {UNION {
        {Config(One(Root, DirNode) @@ One(S, DirNode) @@ One(D, DirNode)
                    @@ Mount(S, ts) @@ Mount(D, td), S, D, re, NoFaults)
            : ts \in TreesOf({FileS, FileSNew, Link("none")}, i),
              td \in TreesOf({FileD, Link("none")}, j),
              re \in BOOLEAN}
        : j \in 0..(TotalEntries - i)} : i \in 0..TotalEntries}

\* Two separate roots, one entry each at the same relative path, of every
\* type and with every combination of size and modification time.
PairConfigs ==
    {Config(One(Root, DirNode) @@ One(S, DirNode) @@ One(D, DirNode)
                @@ One(S \o <<"a">>, ns) @@ od, S, D, re, NoFaults)
        : ns \in Files("S") \cup Links \cup {DirNode, OtherNode},
          od \in Opt(D \o <<"a">>, Files("D") \cup Links \cup {DirNode, OtherNode}),
          re \in BOOLEAN}

\* Roots that validate_inputs or the equivalence check may reject, and a
\* destination root that does not exist yet.
RootConfigs ==
    {Config(One(Root, DirNode) @@ os @@ od, S, D, re, NoFaults)
        : os \in Opt(S, {DirNode, FileS, Link("none"), Link("dir")}),
          od \in Opt(D, {DirNode, FileD, Link("none"), Link("file"), Link("dir"),
                          Link("s")}),
          re \in BOOLEAN}
    \cup
    {Config(One(Root, DirNode) @@ One(S, DirNode) @@ oa, S, dst, re, NoFaults)
        : oa \in Opt(S \o <<"a">>, {FileS, DirNode}),
          dst \in {S, D, D \o <<"a">>},
          re \in BOOLEAN}

\* The destination root inside the source tree.
DestInSourceConfigs ==
    {Config(One(Root, DirNode) @@ One(S, DirNode) @@ oa @@ od, S, S \o D, re, NoFaults)
        : oa \in Opt(S \o <<"a">>, {FileS, DirNode}),
          od \in {<< >>, One(S \o D, DirNode),
                  One(S \o D, DirNode) @@ One(S \o D \o <<"a">>, FileD),
                  One(S \o D, DirNode) @@ One(S \o D \o <<"a">>, DirNode)},
          re \in BOOLEAN}

\* The source root inside the destination tree.
SourceInDestConfigs ==
    {Config(One(Root, DirNode) @@ One(D, DirNode) @@ One(D \o S, DirNode)
                @@ oa @@ os @@ od, D \o S, D, re, NoFaults)
        : oa \in Opt(D \o S \o <<"a">>, {FileS, DirNode}),
          os \in Opt(D \o S \o S, {DirNode}),
          od \in Opt(D \o <<"a">>, {FileD, DirNode}),
          re \in BOOLEAN}

\* Two separate roots and one call that fails on one path.
FaultConfigs ==
    {Config(One(Root, DirNode) @@ One(S, DirNode) @@ One(D, DirNode) @@ oa @@ od,
            S, D, re, [NoFaults EXCEPT ![k] = {p}])
        : oa \in Opt(S \o <<"a">>, {FileS, DirNode}),
          od \in Opt(D \o <<"a">>, {FileD, DirNode})
                    \cup {One(D \o <<"b">>, FileD),
                          One(D \o <<"a">>, DirNode) @@ One(D \o <<"a", "b">>, FileD)},
          k \in {"lstat", "status", "relative", "op"},
          p \in {S \o <<"a">>, D \o <<"a">>, D \o <<"b">>, D \o <<"a", "b">>},
          re \in BOOLEAN}

Configs ==
    GeneralConfigs \cup PairConfigs \cup RootConfigs \cup DestInSourceConfigs
        \cup SourceInDestConfigs \cup FaultConfigs

Init ==
    \E c \in Configs :
        /\ fs = c.fs
        /\ source = c.source
        /\ destination = c.destination
        /\ remove_extraneous = c.remove_extraneous
        /\ faults = c.faults
        /\ pc = "validate"
        /\ stats = EmptyStats
        /\ it = << >>
        /\ candidates = << >>
        /\ ci = 1
        /\ run = 1
        /\ err = ""
        /\ ev = NoEvent
        /\ fs0 = c.fs
        /\ fsPrune = c.fs

(***************************************************************************)
(* synchronize, step by step.                                              *)
(***************************************************************************)
\* validate_inputs without its check of the destination.
ValidateSourceOnly(f, src, dst) ==
    IF StatusThrows(src) THEN "status"
    ELSE IF ~Exists(f, src) THEN "Source directory does not exist"
    ELSE IF ~IsDirectory(f, src) THEN "Source path is not a directory"
    ELSE ""

\* validate_inputs: the message of the exception it throws, "" if none.
ValidateInputs(f, src, dst) ==
    IF StatusThrows(src) THEN "status"
    ELSE IF ~Exists(f, src) THEN "Source directory does not exist"
    ELSE IF ~IsDirectory(f, src) THEN "Source path is not a directory"
    ELSE IF StatusThrows(dst) THEN "status"
    ELSE IF Exists(f, dst) /\ ~IsDirectory(f, dst)
    THEN "Destination exists but is not a directory"
    ELSE ""

Throw(msg) ==
    /\ pc' = "failed"
    /\ err' = msg
    /\ UNCHANGED <<fs, stats, it, candidates, ci, ev, fsPrune>>

Validate ==
    /\ pc = "validate"
    /\ LET msg == ValidateInputs(fs, source, destination)
       IN  IF msg # ""
           THEN Throw(msg)
           ELSE /\ pc' = "ensure"
                /\ UNCHANGED <<fs, stats, it, candidates, ci, err, ev, fsPrune>>
    /\ UNCHANGED <<source, destination, remove_extraneous, faults, run, fs0>>

\* ensure_destination_root: the filesystem afterwards, or the failure of
\* create_directories.
EnsureDestinationRoot(f, dst) ==
    IF Exists(f, dst) THEN [ok |-> TRUE, fs |-> f] ELSE CreateDirectories(f, dst)

EnsureRoot ==
    /\ pc = "ensure"
    /\ LET r == EnsureDestinationRoot(fs, destination)
       IN  IF ~r.ok
           THEN Throw("create_directories")
           ELSE /\ pc' = "equivalent"
                /\ fs' = r.fs
                /\ UNCHANGED <<stats, it, candidates, ci, err, ev, fsPrune>>
    /\ UNCHANGED <<source, destination, remove_extraneous, faults, run, fs0>>

\* The equivalence check, then the start of copy_from_source: the walk of
\* the source tree is opened.
CheckEquivalent ==
    /\ pc = "equivalent"
    /\ IF Equivalent(fs, source, destination)
       THEN Throw("Source and destination resolve to the same location.")
       ELSE /\ pc' = "copy"
            /\ it' = <<OpenDir(fs, source)>>
            /\ UNCHANGED <<fs, stats, candidates, ci, err, ev, fsPrune>>
    /\ UNCHANGED <<source, destination, remove_extraneous, faults, run, fs0>>

\* One iteration of the loop of copy_from_source.
CopyStep ==
    /\ pc = "copy"
    /\ \E pos \in Positions(fs, it) :
        /\ pos.entry # NoEntry
        /\ LET r == CopyEntry(fs, stats, pos.entry, Len(pos.stk) - 1)
           IN  /\ fs' = r.fs
               /\ stats' = r.stats
               /\ ev' = r.ev
               /\ IF r.abort
                  THEN /\ pc' = "failed"
                       /\ err' = "status"
                       /\ it' = pos.stk
                  ELSE /\ it' = Increment(r.fs, pos.stk, pos.entry, r.descend)
                       /\ UNCHANGED <<pc, err>>
    /\ UNCHANGED <<source, destination, remove_extraneous, faults, candidates, ci,
                   run, fs0, fsPrune>>

\* The prune stage whatever the option says.
RunsPruneAlways == TRUE

\* if (options_.remove_extraneous)
RunsPrune == remove_extraneous

\* The source walk is over: the prune stage starts, or synchronize returns.
CopyDone ==
    /\ pc = "copy"
    /\ \E pos \in Positions(fs, it) : pos.entry = NoEntry
    /\ IF RunsPrune
       THEN /\ pc' = "prune_scan"
            /\ it' = <<OpenDir(fs, destination)>>
       ELSE /\ pc' = "done"
            /\ it' = << >>
    /\ candidates' = << >>
    /\ ci' = 1
    /\ fsPrune' = fs
    /\ ev' = NoEvent
    /\ UNCHANGED <<fs, source, destination, remove_extraneous, faults, stats, run,
                   err, fs0>>

\* One iteration of the discovery loop of prune_destination.
PruneScan ==
    /\ pc = "prune_scan"
    /\ \E pos \in Positions(fs, it) :
        /\ pos.entry # NoEntry
        /\ LET r == PruneEntry(fs, candidates, pos.entry, Len(pos.stk) - 1)
           IN  /\ candidates' = r.candidates
               /\ ev' = r.ev
               /\ IF r.abort
                  THEN /\ pc' = "failed"
                       /\ err' = "status"
                       /\ it' = pos.stk
                  ELSE /\ it' = Increment(fs, pos.stk, pos.entry, r.descend)
                       /\ UNCHANGED <<pc, err>>
    /\ UNCHANGED <<fs, source, destination, remove_extraneous, faults, stats, ci,
                   run, fs0, fsPrune>>

\* The destination walk is over: std::sort of the candidates.
PruneSort ==
    /\ pc = "prune_scan"
    /\ \E pos \in Positions(fs, it) : pos.entry = NoEntry
    /\ candidates' \in SortedCandidates(candidates)
    /\ pc' = "prune_remove"
    /\ it' = << >>
    /\ ci' = 1
    /\ ev' = NoEvent
    /\ UNCHANGED <<fs, source, destination, remove_extraneous, faults, stats, run,
                   err, fs0, fsPrune>>

\* One iteration of the removal loop of prune_destination.
PruneRemove ==
    /\ pc = "prune_remove"
    /\ ci <= Len(candidates)
    /\ LET r == RemoveCandidate(fs, stats, candidates[ci])
       IN  /\ fs' = r.fs
           /\ stats' = r.stats
           /\ ev' = r.ev
    /\ ci' = ci + 1
    /\ UNCHANGED <<source, destination, remove_extraneous, faults, pc, it, candidates,
                   run, err, fs0, fsPrune>>

\* The removal loop is over: synchronize returns the statistics.
Return ==
    /\ pc = "prune_remove"
    /\ ci > Len(candidates)
    /\ pc' = "done"
    /\ ev' = NoEvent
    /\ UNCHANGED <<fs, source, destination, remove_extraneous, faults, stats, it,
                   candidates, ci, run, err, fs0, fsPrune>>

\* The caller runs synchronize a second time on the same arguments.
Rerun ==
    /\ pc = "done"
    /\ run = 1
    /\ run' = 2
    /\ pc' = "validate"
    /\ stats' = EmptyStats
    /\ it' = << >>
    /\ candidates' = << >>
    /\ ci' = 1
    /\ ev' = NoEvent
    /\ fs0' = fs
    /\ fsPrune' = fs
    /\ UNCHANGED <<fs, source, destination, remove_extraneous, faults, err>>

Next ==
    \/ Validate
    \/ EnsureRoot
    \/ CheckEquivalent
    \/ CopyStep
    \/ CopyDone
    \/ PruneScan
    \/ PruneSort
    \/ PruneRemove
    \/ Return
    \/ Rerun

Spec == Init /\ [][Next]_vars

\* synchronize is one thread running to completion: every step that can be
\* taken is taken.
FairSpec == Spec /\ WF_vars(Next)

TypeOK ==
    /\ pc \in {"validate", "ensure", "equivalent", "copy", "prune_scan",
               "prune_remove", "done", "failed"}
    /\ run \in {1, 2}
    /\ \A p \in DOMAIN fs : p = Root \/ Parent(p) \in DOMAIN fs
    /\ \A p \in DOMAIN fs : Len(p) <= PathMax

(***************************************************************************)
(* Vocabulary of the properties.                                           *)
(***************************************************************************)
\* The two roots name separate trees: neither lies inside the other.
SeparateRoots == ~IsPrefix(source, destination) /\ ~IsPrefix(destination, source)

\* The entries of the tree below root r in filesystem f.
EntriesBelow(f, r) == {p \in DOMAIN f : IsAncestor(r, p)}

TreeBelow(f, r) == [p \in EntriesBelow(f, r) |-> f[p]]

\* The path a destination entry corresponds to under the source root, and
\* the path a source entry corresponds to under the destination root.
InSource(p) == source \o SubSeq(p, Len(destination) + 1, Len(p))

InDestination(p) == destination \o SubSeq(p, Len(source) + 1, Len(p))

(***************************************************************************)
(* C1.  Idempotence: when synchronize has run twice in succession with     *)
(* remove_extraneous = true, the second run reports files_copied = 0 and   *)
(* files_deleted = 0 and leaves every destination entry as the first run   *)
(* left it.  Stated for the most favourable setting: separate roots, no    *)
(* failing call and no timestamp before the epoch.                         *)
(***************************************************************************)
C1_Idempotent ==
    (/\ pc = "done" /\ run = 2 /\ remove_extraneous
     /\ faults = NoFaults /\ SeparateRoots
     /\ \A p \in DOMAIN fs : fs[p].sec >= 0)
        => /\ stats.files_copied = 0
           /\ stats.files_deleted = 0
           /\ TreeBelow(fs, destination) = TreeBelow(fs0, destination)

(***************************************************************************)
(* C2.  Copy decision: a step of the copy stage that handles a source      *)
(* regular file whose destination path is a regular file (no symlink) with *)
(* readable metadata copies the file exactly when the sizes differ, or the *)
(* source mtime is greater, or the mtimes are equal and the source         *)
(* mtime_nsec is greater (the fields of FileMetadata); otherwise it leaves *)
(* the filesystem unchanged and adds exactly one to files_skipped.         *)
(***************************************************************************)
C2_Case(entry) ==
    /\ entry \in DOMAIN fs /\ fs[entry].kind = "file"
    /\ entry \notin (faults.lstat \cup faults.relative)
    /\ InDestination(entry) \in DOMAIN fs
    /\ fs[InDestination(entry)].kind = "file"
    /\ InDestination(entry) \notin (faults.lstat \cup faults.status \cup faults.op)

C2_Differs(s, d) ==
    \/ ToU64(s.size) # ToU64(d.size)
    \/ ToU64(s.sec) > ToU64(d.sec)
    \/ (ToU64(s.sec) = ToU64(d.sec) /\ ToU64(s.nsec) > ToU64(d.nsec))

C2_Step ==
    (pc = "copy" /\ stats'.entries_scanned = stats.entries_scanned + 1
                 /\ C2_Case(ev'.entry))
        => LET src == ev'.entry
               dst == InDestination(ev'.entry)
           IN  IF C2_Differs(fs[src], fs[dst])
               THEN /\ stats'.files_copied = stats.files_copied + 1
                    /\ stats'.files_skipped = stats.files_skipped
                    /\ fs'[dst].data = fs[src].data
                    /\ fs'[dst].size = fs[src].size
               ELSE /\ stats'.files_copied = stats.files_copied
                    /\ stats'.files_skipped = stats.files_skipped + 1
                    /\ fs' = fs

\* C2.  Every step satisfies the copy decision stated above.
C2_CopyDecision == [][C2_Step]_vars

\* A file with equal size and an older mtime_nsec was skipped, and a file
\* of another size was copied.
C2_Witness ==
    /\ pc = "copy"
    /\ ev.act = "skipped"
    /\ fs[ev.entry].size = fs[ev.dest].size
    /\ fs[ev.entry].sec = fs[ev.dest].sec
    /\ fs[ev.entry].nsec < fs[ev.dest].nsec

(***************************************************************************)
(* C3.  Prune postcondition, as claimed: when synchronize has returned     *)
(* with remove_extraneous = true and no removal failed, no destination     *)
(* entry is left whose corresponding source path does not exist.  Stated   *)
(* for separate roots and no failing call.                                 *)
(***************************************************************************)
C3_PrunePost ==
    (pc = "done" /\ remove_extraneous /\ faults = NoFaults /\ SeparateRoots)
        => \A p \in EntriesBelow(fs, destination) : Exists(fs, InSource(p))

\* The prune stage's walk reaches p, reads its metadata and computes its
\* relative path, and p is no symlink: nothing from the destination root
\* down to p is a symlink, fails lstat or fails fs::relative.
C3_Walked(p) ==
    \A n \in (Len(destination) + 1)..Len(p) :
        /\ SubSeq(p, 1, n) \notin (faults.lstat \cup faults.relative)
        /\ fsPrune[SubSeq(p, 1, n)].kind # "link"

C3_NoRemovalFailed == \A i \in 1..Len(candidates) : candidates[i].path \notin faults.op

(***************************************************************************)
(* C3, amended.  When synchronize has returned with remove_extraneous =    *)
(* true and no removal failed, every destination entry that is no symlink, *)
(* that the prune stage's walk reached with readable metadata and a        *)
(* computable relative path, and whose corresponding source path did not   *)
(* exist when the prune stage started, is absent from the destination.     *)
(***************************************************************************)
C3_PruneRemoves ==
    (pc = "done" /\ remove_extraneous /\ C3_NoRemovalFailed)
        => \A p \in EntriesBelow(fsPrune, destination) :
               (C3_Walked(p) /\ ~Exists(fsPrune, InSource(p))) => p \notin DOMAIN fs

\* An extraneous file inside a kept directory was removed.
C3_Witness ==
    /\ pc = "done" /\ remove_extraneous /\ C3_NoRemovalFailed
    /\ \E p \in EntriesBelow(fsPrune, destination) :
        /\ C3_Walked(p)
        /\ ~Exists(fsPrune, InSource(p))
        /\ p \notin DOMAIN fs
        /\ Parent(p) \in DOMAIN fs
        /\ Parent(p) # destination

(***************************************************************************)
(* C4.  Prune frame: during and after the prune stage, every destination   *)
(* entry whose corresponding source path existed when the stage started is *)
(* still there and is the same as when the stage started.                  *)
(***************************************************************************)
C4_PruneFrame ==
    (pc \in {"prune_scan", "prune_remove", "done"} /\ remove_extraneous)
        => \A p \in EntriesBelow(fsPrune, destination) :
               Exists(fsPrune, InSource(p)) => (p \in DOMAIN fs /\ fs[p] = fsPrune[p])

\* The prune stage removed something and kept a nested entry that has a
\* source counterpart.
C4_Witness ==
    /\ pc = "done" /\ remove_extraneous
    /\ stats.files_deleted > 0
    /\ \E p \in EntriesBelow(fsPrune, destination) :
        /\ Len(p) > Len(destination) + 1
        /\ Exists(fsPrune, InSource(p))
        /\ p \in DOMAIN fs

(***************************************************************************)
(* C5.  Retain option: when synchronize has returned with                  *)
(* remove_extraneous = false, files_deleted is 0 and every entry that was  *)
(* in the destination before the run and has no entry at the corresponding *)
(* source path is still there.  Stated for separate roots and no failing   *)
(* call.                                                                   *)
(***************************************************************************)
C5_Retain ==
    (pc = "done" /\ run = 1 /\ ~remove_extraneous /\ faults = NoFaults /\ SeparateRoots)
        => /\ stats.files_deleted = 0
           /\ \A p \in EntriesBelow(fs0, destination) :
                  InSource(p) \notin DOMAIN fs0 => p \in DOMAIN fs

(***************************************************************************)
(* C6.  Fatal validation: when the source does not exist, the source is no *)
(* directory, the destination exists and is no directory, or the two roots *)
(* are the same location, the run never gets past the equivalence check    *)
(* (it ends in the exception; no statistics are returned), the filesystem  *)
(* stays as it was and nothing is counted.                                 *)
(***************************************************************************)
C6_Rejected ==
    \/ ~Exists(fs0, source)
    \/ ~IsDirectory(fs0, source)
    \/ (Exists(fs0, destination) /\ ~IsDirectory(fs0, destination))
    \/ Equivalent(fs0, source, destination)

\* C6.  A rejected run stops before the copy stage and changes nothing.
C6_FatalValidation ==
    C6_Rejected => /\ pc \in {"validate", "ensure", "equivalent", "failed"}
                   /\ fs = fs0
                   /\ stats = EmptyStats

\* The run was ended by the equivalence check on two different paths that
\* name the same directory.
C6_Witness ==
    /\ C6_Rejected
    /\ source # destination
    /\ pc = "failed"
    /\ err = "Source and destination resolve to the same location."

(***************************************************************************)
(* C7.  Mirror postcondition: when synchronize has returned, every source  *)
(* directory has a directory, and every source regular file a regular      *)
(* file, at the corresponding destination path.  Stated for separate roots *)
(* and no failing call.                                                    *)
(***************************************************************************)
C7_Mirror ==
    (pc = "done" /\ run = 1 /\ faults = NoFaults /\ SeparateRoots)
        => \A p \in EntriesBelow(fs0, source) :
               /\ fs0[p].kind = "dir" => IsDirectory(fs, InDestination(p))
               /\ fs0[p].kind = "file" => IsRegularFile(fs, InDestination(p))

(***************************************************************************)
(* C8.  Source is read-only: every entry that was under the source root    *)
(* when synchronize was called is still there, unchanged.  Stated for the  *)
(* entries that exist at the start, a destination root that is not inside  *)
(* the source tree, and no failing call.                                   *)
(***************************************************************************)
C8_SourceKept ==
    (run = 1 /\ faults = NoFaults /\ ~IsPrefix(source, destination))
        => \A p \in DOMAIN fs0 :
               IsPrefix(source, p) => (p \in DOMAIN fs /\ fs[p] = fs0[p])

(***************************************************************************)
(* C9.  Termination: a run that passed validation and the equivalence      *)
(* check returns its statistics: with no failing call, the only exceptions *)
(* that end a run are those of validate_inputs, of                         *)
(* ensure_destination_root and of the equivalence check.                   *)
(***************************************************************************)
C9_Returns ==
    (pc = "failed" /\ faults = NoFaults)
        => err \in {"Source directory does not exist",
                    "Source path is not a directory",
                    "Destination exists but is not a directory",
                    "Source and destination resolve to the same location.",
                    "create_directories"}

(***************************************************************************)
(* C10.  Depth-ordered removal: in the sorted candidate list no directory  *)
(* comes before a candidate below it, and no removal fails because a       *)
(* directory is not empty.                                                 *)
(***************************************************************************)
C10_DepthOrdered ==
    (pc \in {"prune_remove", "done"})
        => /\ \A i, j \in 1..Len(candidates) :
                  IsAncestor(candidates[i].path, candidates[j].path) => j < i
           /\ ev.act # "remove_not_empty"

\* A directory and an entry below it were both candidates, and both
\* removals have been attempted.
C10_Witness ==
    /\ pc = "prune_remove"
    /\ ci > Len(candidates)
    /\ \E i, j \in 1..Len(candidates) :
           IsAncestor(candidates[i].path, candidates[j].path)

(***************************************************************************)
(* C11.  Source symlinks: a step of the copy stage on a source symlink     *)
(* whose metadata can be read adds exactly one to files_skipped, copies    *)
(* and creates nothing (filesystem, files_copied, directories_created,     *)
(* bytes_copied and synced_entries stay as they are) and opens no          *)
(* directory stream on it; and when the copy stage of a run over a source  *)
(* tree of directories and symlinks (all of them encountered: no call      *)
(* fails and the destination holds directories only) is over,              *)
(* files_skipped is the number of symlinks of that tree: each was counted  *)
(* once.                                                                   *)
(***************************************************************************)
C11_Step ==
    (/\ pc = "copy" /\ stats'.entries_scanned = stats.entries_scanned + 1
     /\ ev'.entry \in DOMAIN fs /\ fs[ev'.entry].kind = "link"
     /\ ev'.entry \notin faults.lstat)
        => /\ stats'.files_skipped = stats.files_skipped + 1
           /\ stats'.files_copied = stats.files_copied
           /\ stats'.directories_created = stats.directories_created
           /\ stats'.bytes_copied = stats.bytes_copied
           /\ stats'.synced_entries = stats.synced_entries
           /\ fs' = fs
           /\ Len(it') <= Len(it)
           /\ pc' = "copy"

C11_CountedOnce ==
    (/\ pc \in {"prune_scan", "prune_remove", "done"} /\ run = 1
     /\ faults = NoFaults /\ SeparateRoots
     /\ \A p \in EntriesBelow(fs0, source) : fs0[p].kind \in {"dir", "link"}
     /\ \A p \in EntriesBelow(fs0, destination) : fs0[p].kind = "dir")
        => stats.files_skipped
               = Cardinality({p \in EntriesBelow(fs0, source) : fs0[p].kind = "link"})

\* C11.  Both parts: the step on a symlink, and the count at the end.
C11_SourceSymlinks == [][C11_Step]_vars /\ []C11_CountedOnce

\* A source symlink that points to a directory was skipped.
C11_Witness ==
    /\ pc = "copy"
    /\ ev.act = "symlink"
    /\ fs[ev.entry].kind = "link" /\ fs[ev.entry].tgt = "dir"
    /\ stats.files_skipped = 1

(***************************************************************************)
(* C12.  Destination symlinks: when synchronize has returned, every        *)
(* symlink that was in the destination tree before the run is still there  *)
(* and unchanged.  Stated for separate roots, no failing call, and the     *)
(* symlinks the copy stage has nothing to put in the place of: no source   *)
(* entry at the symlink's corresponding path, and nothing but directories  *)
(* at the corresponding paths of the directories above it.                 *)
(***************************************************************************)
C12_NoSourceConflict(p) ==
    /\ InSource(p) \notin DOMAIN fs0
    /\ \A n \in (Len(destination) + 1)..(Len(p) - 1) :
           InSource(SubSeq(p, 1, n)) \in DOMAIN fs0
               => fs0[InSource(SubSeq(p, 1, n))].kind = "dir"

\* C12.  Every such destination symlink is present and unchanged at return.
C12_DestSymlinksKept ==
    (pc = "done" /\ run = 1 /\ faults = NoFaults /\ SeparateRoots)
        => \A p \in EntriesBelow(fs0, destination) :
               (fs0[p].kind = "link" /\ C12_NoSourceConflict(p))
                   => (p \in DOMAIN fs /\ fs[p] = fs0[p])

(***************************************************************************)
(* C13.  Stage ordering: every step moves synchronize along the order      *)
(* validate, ensure destination root, equivalence check, copy stage,       *)
(* prune stage, return (or into the exception that ends the run); before   *)
(* the copy stage nothing below the destination root changes and nothing   *)
(* is counted; the copy stage is left only when its walk is at its end;    *)
(* entries are counted as deleted only by the removal loop, which is       *)
(* entered from the discovery walk; and the prune stage is entered exactly *)
(* when remove_extraneous is true.                                         *)
(***************************************************************************)
C13_Successors(stage) ==
    CASE stage = "validate"     -> {"ensure", "failed"}
      [] stage = "ensure"       -> {"equivalent", "failed"}
      [] stage = "equivalent"   -> {"copy", "failed"}
      [] stage = "copy"         -> {"copy", "prune_scan", "done", "failed"}
      [] stage = "prune_scan"   -> {"prune_scan", "prune_remove", "failed"}
      [] stage = "prune_remove" -> {"prune_remove", "done"}
      [] stage = "done"         -> {"validate"}
      [] OTHER                  -> {}

C13_Step ==
    /\ pc' \in C13_Successors(pc)
    /\ pc \in {"validate", "ensure", "equivalent"}
           => /\ TreeBelow(fs', destination) = TreeBelow(fs, destination)
              /\ stats' = stats
    /\ (pc = "copy" /\ pc' \in {"prune_scan", "done"})
           => /\ \E pos \in Positions(fs, it) : pos.entry = NoEntry
              /\ (pc' = "prune_scan") <=> remove_extraneous
    /\ stats'.files_deleted # stats.files_deleted => (pc = "prune_remove" \/ pc = "done")
    /\ pc \in {"prune_scan", "prune_remove"} => remove_extraneous

\* C13.  Every step respects the stage order.
C13_StageOrder == [][C13_Step]_vars

\* A run with pruning enabled copied a file and then removed an entry.
C13_Witness ==
    /\ pc = "done" /\ run = 1 /\ remove_extraneous
    /\ stats.files_copied > 0
    /\ stats.files_deleted > 0

(***************************************************************************)
(* C14.  Synced-entries accounting: at every moment the length of          *)
(* synced_entries is files_copied + directories_created and bytes_copied   *)
(* is the sum of the sizes of its regular-file entries; and a step of the  *)
(* copy stage on a source entry either leaves synced_entries alone or      *)
(* appends the entry's own metadata at its end, the latter exactly when    *)
(* the entry is a regular file that was copied (files_copied grew, the     *)
(* destination path holds its content) or a directory whose destination    *)
(* path held nothing and now holds a directory (directories_created grew). *)
(***************************************************************************)
RECURSIVE C14_FileBytes(_)
C14_FileBytes(seq) ==
    IF seq = << >> THEN 0
    ELSE (IF Head(seq).mode = "file" THEN Head(seq).size ELSE 0) + C14_FileBytes(Tail(seq))

C14_Totals ==
    /\ Len(stats.synced_entries) = stats.files_copied + stats.directories_created
    /\ stats.bytes_copied = C14_FileBytes(stats.synced_entries)

C14_Appended(entry) ==
    /\ Len(stats'.synced_entries) = Len(stats.synced_entries) + 1
    /\ SubSeq(stats'.synced_entries, 1, Len(stats.synced_entries)) = stats.synced_entries
    /\ LET m == stats'.synced_entries[Len(stats'.synced_entries)]
       IN  /\ m.file = entry
           /\ m.mode = fs[entry].kind
           /\ m.size = ToU64(fs[entry].size)
           /\ m.mtime = ToU64(fs[entry].sec)
           /\ m.mtime_nsec = ToU64(fs[entry].nsec)
           /\ m.depth = Len(entry) - Len(source) - 1

C14_Step ==
    (pc = "copy" /\ stats'.entries_scanned = stats.entries_scanned + 1)
        => LET entry  == ev'.entry
               dst    == InDestination(entry)
               copied == /\ fs[entry].kind = "file"
                         /\ stats'.files_copied = stats.files_copied + 1
                         /\ stats'.directories_created = stats.directories_created
                         /\ dst \in DOMAIN fs' /\ fs'[dst].data = fs[entry].data
               made   == /\ fs[entry].kind = "dir"
                         /\ stats'.directories_created = stats.directories_created + 1
                         /\ stats'.files_copied = stats.files_copied
                         /\ dst \notin DOMAIN fs
                         /\ dst \in DOMAIN fs' /\ fs'[dst].kind = "dir"
           IN  IF copied \/ made
               THEN C14_Appended(entry)
               ELSE /\ stats'.synced_entries = stats.synced_entries
                    /\ stats'.files_copied = stats.files_copied
                    /\ stats'.directories_created = stats.directories_created
                    /\ stats'.bytes_copied = stats.bytes_copied

\* C14.  The totals at every moment, and the effect of every step.
C14_SyncedEntries == []C14_Totals /\ [][C14_Step]_vars

\* A run created a directory and copied a file below it, in that order.
C14_Witness ==
    /\ pc = "done" /\ run = 1
    /\ Len(stats.synced_entries) = 2
    /\ stats.synced_entries[1].mode = "dir"
    /\ stats.synced_entries[2].mode = "file"
    /\ IsAncestor(stats.synced_entries[1].file, stats.synced_entries[2].file)
    /\ stats.bytes_copied = stats.synced_entries[2].size

(***************************************************************************)
(* C15.  Deletion count: when synchronize has returned after a prune stage *)
(* in which no removal failed, files_deleted is the number of entries that *)
(* were in the filesystem when the prune stage started and are not in it   *)
(* any more.                                                               *)
(***************************************************************************)
C15_NoRemovalFailed == \A i \in 1..Len(candidates) : candidates[i].path \notin faults.op

C15_Removed == DOMAIN fsPrune \ DOMAIN fs

\* C15.  files_deleted counts every removed entry once.
C15_DeletionCount ==
    (pc = "done" /\ remove_extraneous /\ C15_NoRemovalFailed)
        => stats.files_deleted = Cardinality(C15_Removed)

\* A directory and an entry below it were both candidates, and the removal
\* of the directory took along an entry that was no candidate.
C15_Witness ==
    /\ pc = "done" /\ remove_extraneous /\ C15_NoRemovalFailed
    /\ stats.files_deleted = 3
    /\ Len(candidates) = 2
    /\ IsAncestor(candidates[2].path, candidates[1].path)

(***************************************************************************)
(* C16.  Failures do not abort: whichever call on an entry below the roots *)
(* fails, a run that was ended by an exception was ended by                *)
(* validate_inputs, by ensure_destination_root or by the equivalence       *)
(* check, never by the copy stage or the prune stage.  Stated for separate *)
(* roots.                                                                  *)
(***************************************************************************)
C16_NoAbort ==
    (pc = "failed" /\ SeparateRoots)
        => /\ ev = NoEvent
           /\ stats.entries_scanned = 0
           /\ err # "status"

(***************************************************************************)
(* C17.  Failed entries are not counted: a step of the copy stage in which *)
(* the metadata query, the directory creation, the removal of the          *)
(* destination entry to replace, the creation of the parent directories or *)
(* the file copy failed changes no counter but entries_scanned and appends *)
(* nothing to synced_entries; a step of the removal loop whose removal     *)
(* failed leaves files_deleted and the filesystem as they are.             *)
(***************************************************************************)
C17_CopyFailures ==
    {"lstat_failed", "mkdir_failed", "replace_failed", "parent_failed", "copy_failed"}

C17_RemoveFailures == {"remove_failed", "remove_not_empty"}

C17_Step ==
    /\ (pc = "copy" /\ pc' = "copy" /\ ev'.act \in C17_CopyFailures)
           => /\ stats' = [stats EXCEPT !.entries_scanned = @ + 1]
              /\ ~(ev'.dest \in DOMAIN fs' /\ fs'[ev'.dest].kind = "file"
                       /\ fs'[ev'.dest].data = fs[ev'.entry].data)
    /\ (pc = "prune_remove" /\ pc' = "prune_remove" /\ ev'.act \in C17_RemoveFailures)
           => /\ stats' = stats
              /\ fs' = fs

\* C17.  Every failing step leaves the counters alone.
C17_FailedNotCounted == [][C17_Step]_vars

\* A file copy failed after the parent directory had been ensured, and
\* nothing was counted for the entry.
C17_Witness ==
    /\ pc = "copy"
    /\ ev.act = "copy_failed"
    /\ ev.dest \in faults.op
    /\ stats.entries_scanned = 1
    /\ stats.files_copied = 0 /\ stats.files_skipped = 0

(***************************************************************************)
(* C18.  No copy through a symlink: during the first run, every symlink of *)
(* the initial filesystem that is still in place is as it was: the copy    *)
(* stage has written no file content to what it points to.  Stated for     *)
(* separate roots and no failing call.                                     *)
(***************************************************************************)
C18_NoCopyThroughSymlink ==
    (run = 1 /\ faults = NoFaults /\ SeparateRoots)
        => \A p \in DOMAIN fs :
               (fs[p].kind = "link" /\ p \in DOMAIN fs0 /\ fs0[p].kind = "link")
                   => fs[p] = fs0[p]

(***************************************************************************)
(* C19.  Unknown entries are not deleted: during and after the prune       *)
(* stage, every destination entry whose metadata query fails is still in   *)
(* the filesystem, as it was when the stage started.  Stated for separate  *)
(* roots.                                                                  *)
(***************************************************************************)
C19_UnknownKept ==
    (pc \in {"prune_scan", "prune_remove", "done"} /\ remove_extraneous /\ SeparateRoots)
        => \A p \in EntriesBelow(fsPrune, destination) :
               p \in faults.lstat => (p \in DOMAIN fs /\ fs[p] = fsPrune[p])

(***************************************************************************)
(* C20.  Timestamp ordering: when the copy stage of the first run is over, *)
(* a destination regular file that had the size of the source regular file *)
(* at the corresponding path holds the source's content exactly when the   *)
(* source's modification instant (signed seconds, then nanoseconds) was    *)
(* strictly later than its own.  Stated for separate roots and no failing  *)
(* call.                                                                   *)
(***************************************************************************)
C20_Later(s, d) == s.sec > d.sec \/ (s.sec = d.sec /\ s.nsec > d.nsec)

\* C20.  The freshness test orders the signed instants.
C20_TimestampOrder ==
    (/\ pc \in {"prune_scan", "prune_remove", "done"} /\ run = 1
     /\ faults = NoFaults /\ SeparateRoots)
        => \A p \in EntriesBelow(fs0, source) :
               LET dst == InDestination(p)
               IN  (/\ fs0[p].kind = "file"
                    /\ dst \in DOMAIN fs0 /\ fs0[dst].kind = "file"
                    /\ fs0[dst].size = fs0[p].size
                    /\ fs0[dst].data # fs0[p].data)
                       => /\ dst \in DOMAIN fs /\ fs[dst].kind = "file"
                          /\ (fs[dst].data = fs0[p].data) <=> C20_Later(fs0[p], fs0[dst])

(***************************************************************************)
(* C21.  Counter consistency: in every state files_copied + files_skipped  *)
(* + directories_created is at most entries_scanned; every step of the     *)
(* copy stage on an entry adds exactly one to entries_scanned and at most  *)
(* one to that sum; no step of a run makes a counter smaller, and outside  *)
(* the copy loop these four counters do not move; and when the copy stage  *)
(* has walked a whole source tree (no failing call, nothing in the         *)
(* destination that stops a descent) entries_scanned is the number of      *)
(* entries of that tree: each was visited and counted once.                *)
(***************************************************************************)
C21_Outcomes(st) == st.files_copied + st.files_skipped + st.directories_created

C21_Bound == C21_Outcomes(stats) <= stats.entries_scanned

C21_NoDecrease ==
    /\ stats'.entries_scanned >= stats.entries_scanned
    /\ stats'.files_copied >= stats.files_copied
    /\ stats'.files_skipped >= stats.files_skipped
    /\ stats'.directories_created >= stats.directories_created
    /\ stats'.files_deleted >= stats.files_deleted
    /\ stats'.bytes_copied >= stats.bytes_copied

C21_Step ==
    IF pc = "done"
    THEN stats' = EmptyStats
    ELSE /\ C21_NoDecrease
         /\ IF pc = "copy" /\ ev'.act # "none"
            THEN /\ stats'.entries_scanned = stats.entries_scanned + 1
                 /\ C21_Outcomes(stats') - C21_Outcomes(stats) \in {0, 1}
            ELSE /\ stats'.entries_scanned = stats.entries_scanned
                 /\ C21_Outcomes(stats') = C21_Outcomes(stats)

C21_ScannedOnce ==
    (/\ pc \in {"prune_scan", "prune_remove", "done"} /\ run = 1
     /\ faults = NoFaults /\ SeparateRoots
     /\ \A p \in EntriesBelow(fs0, destination) : fs0[p].kind = "dir")
        => stats.entries_scanned = Cardinality(EntriesBelow(fs0, source))

\* C21.  The bound in every state, the effect of every step, the final count.
C21_CounterConsistency == []C21_Bound /\ [][C21_Step]_vars /\ []C21_ScannedOnce

\* Three entries were scanned: a directory created, a file copied, a
\* symlink skipped.
C21_Witness ==
    /\ pc = "copy"
    /\ stats.entries_scanned = 3
    /\ stats.directories_created = 1
    /\ stats.files_copied = 1
    /\ stats.files_skipped = 1
=============================================================================
